---- MODULE Spec2Model ----
(***************************************************************************)
(* A model of bot.py: the Telegram relay bot that answers a text message   *)
(* by sending the CSV question/answer context and the question to a chat   *)
(* completion API.                                                         *)
(*                                                                         *)
(* The Cyrillic string literals of the source are written here in Latin    *)
(* transliteration (the module is ASCII): 'вопрос' is "vopros", 'ответ'   *)
(* is "otvet", and so on.  Only equality, concatenation, emptiness and     *)
(* substring search are ever applied to them.                              *)
(***************************************************************************)
EXTENDS Integers, Sequences, FiniteSets, TLC

VARIABLES
    cfg,              \* class Config: the three values read from the environment
    proc,             \* the process: "init", "polling", "exit_1"
    csv,              \* the file read_csv_context opens
    bot_data,         \* context.bot_data, a dict
    load_calls,       \* number of calls of read_csv_context so far
    handled,          \* number of inbound text messages dispatched so far
    pc,               \* per handler frame: where handle_message is suspended
    user_question,    \* per frame: update.message.text
    request,          \* per frame: request_data
    response,         \* per frame: the value send_api_request returned
    typing_task,      \* per frame: state of the keep_typing task
    cancel_requested, \* per frame: typing_task.cancel() has been called
    signals,          \* per frame: send_action calls started by the task
    replies,          \* per frame: the reply_text calls, with their outcome
    api_calls,        \* per frame: calls of session.post
    load_result,      \* per frame: "none", "cached", "ok", "raised"
    call              \* a single call of a function: its argument and, once done, its outcome

vars == <<cfg, proc, csv, bot_data, load_calls, handled, pc, user_question,
          request, response, typing_task, cancel_requested, signals, replies,
          api_calls, load_result, call>>

frameVars == <<pc, user_question, request, response, typing_task,
               cancel_requested, signals, replies, api_calls, load_result>>

procVars == <<cfg, proc, csv, bot_data, load_calls, handled>>

-----------------------------------------------------------------------------
(* Bounds of the model.                                                    *)

\* Inbound text messages dispatched in one run of the process.
MaxMsgs == 3
\* Presence signals one keep_typing task may start (its loop is unbounded).
MaxSignals == 2
\* Data rows of a CSV file given to read_csv_context.
MaxRows == 3
\* Columns of a header given to the column selection.
MaxCols == 3

\* Handlers in flight at a time: main() builds the Application with the
\* builder's defaults, under which updates are processed one after another.
NumHandlers == 1
Handlers == 1..NumHandlers

-----------------------------------------------------------------------------
(* Python values: a tag and a payload.                                     *)

PyNone == [tag |-> "None", v |-> "None"]
PyStr(s) == [tag |-> "str", v |-> s]
PyInt(n) == [tag |-> "int", v |-> n]
PyList(q) == [tag |-> "list", v |-> q]
PyDict(f) == [tag |-> "dict", v |-> f]
EmptyDict == <<>>

\* The outcome of evaluating an expression: a value, or an exception.
Returns(x) == [raised |-> FALSE, val |-> x]
Raises(e) == [raised |-> TRUE, val |-> PyStr(e)]

\* bool(x) for the values that occur.
Truthy(x) ==
    CASE x.tag = "None" -> FALSE
      [] x.tag = "str" -> x.v # ""
      [] x.tag = "int" -> x.v # 0
      [] x.tag = "list" -> Len(x.v) > 0
      [] OTHER -> DOMAIN x.v # {}

-----------------------------------------------------------------------------
(* String constants of the source.                                         *)

QuestionToken == "vopros"
AnswerToken == "otvet"
QuestionLabel == "Vopros: "
AnswerLabel == "\nOtvet: "
BlockSeparator == "\n\n"
ModelId == "cotype_pro_16k_1.1"
SystemPreamble == "Ty - assistent kompanii Voxys. [...]\n\nKontekst voprosov i otvetov:\n\n"
FallbackNoAnswer == "Oshibka: Ne udalos poluchit otvet"
ApiApology == "Izvinite, proizoshla oshibka pri obrabotke zaprosa. Poprobuyte pozzhe."
GenericApology == "Izvinite, proizoshla oshibka pri obrabotke vashego zaprosa. Pozhaluysta, poprobuyte pozzhe."

-----------------------------------------------------------------------------
(* read_csv_context: the Context Loader.                                   *)
(*                                                                         *)
(* A file is [readable, fieldnames, rows]: readable is whether open(),     *)
(* read() and Sniffer().sniff() succeed; fieldnames is the header row as   *)
(* csv.DictReader returns it; rows are the following records as csv.reader *)
(* returns them, each a sequence of field strings of any length.           *)

\* str.lower() on one character (ASCII).
UpperLetters == "ABCDEFGHIJKLMNOPQRSTUVWXYZ"
LowerLetters == "abcdefghijklmnopqrstuvwxyz"
LowerChar(c) ==
    IF \E i \in 1..Len(UpperLetters) : SubSeq(UpperLetters, i, i) = c
    THEN LET i == CHOOSE k \in 1..Len(UpperLetters) : SubSeq(UpperLetters, k, k) = c
         IN SubSeq(LowerLetters, i, i)
    ELSE c

RECURSIVE Lower(_)
Lower(s) ==
    IF s = "" THEN ""
    ELSE LowerChar(SubSeq(s, 1, 1)) \o Lower(SubSeq(s, 2, Len(s)))

\* tok in s, for a non-empty tok.
Contains(tok, s) ==
    \E i \in 1..(Len(s) - Len(tok) + 1) : SubSeq(s, i, i + Len(tok) - 1) = tok

\* A loop that keeps the first matching column of each role.
FieldStepFirst(acc, field) ==
    IF Contains(QuestionToken, Lower(field))
    THEN IF acc.question_field = PyNone
         THEN [acc EXCEPT !.question_field = PyStr(field)] ELSE acc
    ELSE IF Contains(AnswerToken, Lower(field))
         THEN IF acc.answer_field = PyNone
              THEN [acc EXCEPT !.answer_field = PyStr(field)] ELSE acc
         ELSE acc

\* One iteration of the loop over reader.fieldnames.
FieldStep(acc, field) ==
    IF Contains(QuestionToken, Lower(field))
    THEN [acc EXCEPT !.question_field = PyStr(field)]
    ELSE IF Contains(AnswerToken, Lower(field))
         THEN [acc EXCEPT !.answer_field = PyStr(field)]
         ELSE acc

RECURSIVE FieldLoop(_, _, _)
FieldLoop(fieldnames, i, acc) ==
    IF i > Len(fieldnames) THEN acc
    ELSE FieldLoop(fieldnames, i + 1, FieldStep(acc, fieldnames[i]))

\* question_field and answer_field after the loop.
SelectFields(fieldnames) ==
    FieldLoop(fieldnames, 1, [question_field |-> PyNone, answer_field |-> PyNone])

\* row[name] of the dict csv.DictReader builds for a record: the value of the
\* last column of that name, None (restval) when the record is too short.
RowGet(fieldnames, row, name) ==
    LET i == CHOOSE k \in 1..Len(fieldnames) :
                 /\ fieldnames[k] = name
                 /\ \A j \in (k + 1)..Len(fieldnames) : fieldnames[j] # name
    IN IF i <= Len(row) THEN PyStr(row[i]) ELSE PyNone

\* The condition of the comprehension.
RowQualifiesOr(fieldnames, row, qf, af) ==
    Truthy(RowGet(fieldnames, row, qf)) \/ Truthy(RowGet(fieldnames, row, af))

RowQualifies(fieldnames, row, qf, af) ==
    Truthy(RowGet(fieldnames, row, qf)) /\ Truthy(RowGet(fieldnames, row, af))

\* str() of a field inside the f-string.
Fmt(x) == IF x.tag = "None" THEN "None" ELSE x.v

\* One element of qa_pairs.
QaBlock(fieldnames, row, qf, af) ==
    QuestionLabel \o Fmt(RowGet(fieldnames, row, qf))
        \o AnswerLabel \o Fmt(RowGet(fieldnames, row, af))

\* The list comprehension over the second DictReader, which skips the header
\* and every record that is an empty list.
RECURSIVE QaPairs(_, _, _, _, _)
QaPairs(fieldnames, rows, i, qf, af) ==
    IF i > Len(rows) THEN <<>>
    ELSE LET row == rows[i]
             rest == QaPairs(fieldnames, rows, i + 1, qf, af)
         IN IF Len(row) > 0 /\ RowQualifies(fieldnames, row, qf, af)
            THEN <<QaBlock(fieldnames, row, qf, af)>> \o rest
            ELSE rest

\* sep.join(parts)
RECURSIVE Join(_, _)
Join(parts, sep) ==
    IF Len(parts) = 0 THEN ""
    ELSE IF Len(parts) = 1 THEN parts[1]
    ELSE parts[1] \o sep \o Join(Tail(parts), sep)

\* A check that fails only when both columns are missing, and reads a file
\* with one of them as a file without pairs.
read_csv_context_both(file) ==
    IF ~file.readable THEN Raises("OSError")
    ELSE LET sel == SelectFields(file.fieldnames)
         IN IF ~Truthy(sel.question_field) /\ ~Truthy(sel.answer_field)
            THEN Raises("ValueError")
            ELSE IF ~Truthy(sel.question_field) \/ ~Truthy(sel.answer_field)
            THEN Returns(PyStr(""))
            ELSE Returns(PyStr(Join(QaPairs(file.fieldnames, file.rows, 1,
                                            sel.question_field.v, sel.answer_field.v),
                                    BlockSeparator)))

read_csv_context(file) ==
    IF ~file.readable THEN Raises("OSError")
    ELSE LET sel == SelectFields(file.fieldnames)
         IN IF ~Truthy(sel.question_field) \/ ~Truthy(sel.answer_field)
            THEN Raises("ValueError")
            ELSE Returns(PyStr(Join(QaPairs(file.fieldnames, file.rows, 1,
                                            sel.question_field.v, sel.answer_field.v),
                                    BlockSeparator)))

-----------------------------------------------------------------------------
(* create_api_request: the Prompt Builder.                                 *)

\* A builder that cuts the context to its first characters.
create_api_request_cut(context, question) ==
    [model |-> ModelId,
     messages |-> << [role |-> "system",
                      content |-> SystemPreamble \o
                                  (IF Len(context) > Len(QuestionLabel)
                                   THEN SubSeq(context, 1, Len(QuestionLabel))
                                   ELSE context)],
                     [role |-> "user", content |-> question] >>]

\* A builder that puts a placeholder in the place of an empty question.
create_api_request_placeholder(context, question) ==
    [model |-> ModelId,
     messages |-> << [role |-> "system", content |-> SystemPreamble \o context],
                     [role |-> "user",
                      content |-> IF question = "" THEN "?" ELSE question] >>]

create_api_request(context, question) ==
    [model |-> ModelId,
     messages |-> << [role |-> "system", content |-> SystemPreamble \o context],
                     [role |-> "user", content |-> question] >>]

-----------------------------------------------------------------------------
(* send_api_request: the API Client.                                       *)
(*                                                                         *)
(* What the completion API does with one POST is an upstream outcome       *)
(* [kind, status, body]: kind "client_error" (the connection fails or the  *)
(* URL is rejected), "timeout", or "response" with an HTTP status and a    *)
(* body; the body is the value response.json() yields, or Malformed when   *)
(* json() raises.                                                          *)

Malformed == [tag |-> "malformed", v |-> "malformed"]

Choice(content) == PyDict([message |-> PyDict([content |-> content])])

\* The response bodies of the model.
Bodies ==
    << PyDict(EmptyDict),
       PyDict([choices |-> PyList(<<>>)]),
       PyDict([choices |-> PyList(<< PyDict(EmptyDict) >>)]),
       PyDict([choices |-> PyList(<< PyDict([message |-> PyDict(EmptyDict)]) >>)]),
       PyDict([choices |-> PyList(<< Choice(PyNone) >>)]),
       PyDict([choices |-> PyList(<< Choice(PyStr("V Moskve")) >>)]),
       PyDict([choices |-> PyList(<< Choice(PyStr("Net informatsii")),
                                     Choice(PyStr("V Moskve")) >>)]),
       PyDict([choices |-> PyNone]),
       PyDict([choices |-> PyList(<< PyDict([message |-> PyNone]) >>)]),
       PyDict([choices |-> PyList(<< Choice(PyInt(5)) >>)]),
       PyDict([error |-> PyStr("overloaded")]),
       PyList(<<>>),
       PyNone,
       Malformed >>

Statuses == {200, 201, 400, 401, 404, 429, 500, 503}

ClientError == [kind |-> "client_error", status |-> 0, body |-> PyNone]
Timeout == [kind |-> "timeout", status |-> 0, body |-> PyNone]
HttpResponse(status, body) == [kind |-> "response", status |-> status, body |-> body]

\* d.get(key, default)
DictGet(d, key, default) ==
    IF d.raised THEN d
    ELSE IF d.val.tag # "dict" THEN Raises("AttributeError")
    ELSE IF key \in DOMAIN d.val.v THEN Returns(d.val.v[key])
    ELSE Returns(default)

\* x[0]
Index0(x) ==
    IF x.raised THEN x
    ELSE IF x.val.tag = "list"
         THEN IF Len(x.val.v) > 0 THEN Returns(x.val.v[1]) ELSE Raises("IndexError")
    ELSE IF x.val.tag = "str"
         THEN IF x.val.v # "" THEN Returns(PyStr(SubSeq(x.val.v, 1, 1)))
              ELSE Raises("IndexError")
    ELSE IF x.val.tag = "dict" THEN Raises("KeyError")
    ELSE Raises("TypeError")

\* result.get('choices', [{}])[0].get('message', {}).get('content', fallback)
ExtractContent(result) ==
    DictGet(DictGet(Index0(DictGet(Returns(result), "choices",
                                   PyList(<< PyDict(EmptyDict) >>))),
                    "message", PyDict(EmptyDict)),
            "content", PyStr(FallbackNoAnswer))

\* The body of the try block: the POST, raise_for_status(), json() and the
\* extraction.
TryBody(upstream) ==
    IF upstream.kind = "client_error" THEN Raises("ClientError")
    ELSE IF upstream.kind = "timeout" THEN Raises("TimeoutError")
    ELSE IF upstream.status >= 400 THEN Raises("ClientResponseError")
    ELSE IF upstream.body.tag = "malformed" THEN Raises("JSONDecodeError")
    ELSE ExtractContent(upstream.body)

\* except aiohttp.ClientError only: what the handler would let through.
send_api_request_narrow(upstream) ==
    LET r == TryBody(upstream)
    IN IF r.raised /\ r.val.v \in {"ClientError", "ClientResponseError"}
       THEN Returns(PyStr(ApiApology))
       ELSE r

\* except Exception: every exception of the try block becomes the apology.
send_api_request(upstream) ==
    LET r == TryBody(upstream)
    IN IF r.raised THEN Returns(PyStr(ApiApology)) ELSE r

-----------------------------------------------------------------------------
(* The process: Config, main, handle_message and keep_typing.              *)

\* A local variable that has not been assigned.
Unset == [tag |-> "unset", v |-> "unset"]

\* os.getenv: the value, or None when the variable is not set.
Getenv(present, value) == IF present THEN PyStr(value) ELSE PyNone

\* The files the process may find as its CSV source.
Unreadable == [readable |-> FALSE, fieldnames |-> <<>>, rows |-> <<>>]
GoodFile ==
    [readable |-> TRUE, fieldnames |-> <<"Vopros", "Otvet">>,
     rows |-> << <<"Gde ofis?", "V Moskve">> >>]
NoAnswerColumn ==
    [readable |-> TRUE, fieldnames |-> <<"Vopros", "Kommentariy">>,
     rows |-> << <<"Gde ofis?", "V Moskve">> >>]
NoQualifyingRow ==
    [readable |-> TRUE, fieldnames |-> <<"Vopros", "Otvet">>,
     rows |-> << <<"Gde ofis?", "">> >>]
SourceFiles == {Unreadable, GoodFile, NoAnswerColumn, NoQualifyingRow}

\* Texts of inbound messages (filters.TEXT: the text is a string).
Questions == {"Gde ofis?"}

\* No pure-function call is under way.
NoCall == [fn |-> "none", arg |-> PyNone, done |-> FALSE, ret |-> Returns(PyNone)]

\* The attributes of a dict object; its keys are not among them.
DictAttributes == {"get", "items", "keys", "values", "pop", "setdefault", "update"}

\* 'qa_context' in context.bot_data: the test on the keys.
HasKey(d, name) == name \in DOMAIN d

\* hasattr(context.bot_data, 'qa_context'): an attribute lookup on the dict.
HasAttr(d, name) == name \in DictAttributes

\* The upstream outcomes one POST can meet under a configuration: without a
\* base URL the URL is "None/v1/chat/completions", which the client rejects.
UpstreamPossible(config, upstream) ==
    config.BASE_URL.tag = "None" => upstream.kind = "client_error"

\* What the platform can do with reply_text(text): a text that is None or
\* empty is rejected ("message text is empty"), any other send succeeds or
\* raises.
ReplyOutcomes(text) ==
    IF text.tag = "None" \/ (text.tag = "str" /\ text.v = "")
    THEN {"raise"} ELSE {"ok", "raise"}

\* The frame of handler h as a record, and its assignment.
Frame(h) ==
    [pc |-> pc[h], user_question |-> user_question[h], request |-> request[h],
     response |-> response[h], typing_task |-> typing_task[h],
     cancel_requested |-> cancel_requested[h], signals |-> signals[h],
     replies |-> replies[h], api_calls |-> api_calls[h],
     load_result |-> load_result[h]]

SetFrame(h, f) ==
    /\ pc' = [pc EXCEPT ![h] = f.pc]
    /\ user_question' = [user_question EXCEPT ![h] = f.user_question]
    /\ request' = [request EXCEPT ![h] = f.request]
    /\ response' = [response EXCEPT ![h] = f.response]
    /\ typing_task' = [typing_task EXCEPT ![h] = f.typing_task]
    /\ cancel_requested' = [cancel_requested EXCEPT ![h] = f.cancel_requested]
    /\ signals' = [signals EXCEPT ![h] = f.signals]
    /\ replies' = [replies EXCEPT ![h] = f.replies]
    /\ api_calls' = [api_calls EXCEPT ![h] = f.api_calls]
    /\ load_result' = [load_result EXCEPT ![h] = f.load_result]

\* The frame of a call of handle_message at its entry.
EntryFrame ==
    [pc |-> "idle", user_question |-> Unset, request |-> Unset, response |-> Unset,
     typing_task |-> "none", cancel_requested |-> FALSE, signals |-> 0,
     replies |-> <<>>, api_calls |-> 0, load_result |-> "none"]

Init ==
    /\ \E b \in BOOLEAN, k \in BOOLEAN, t \in BOOLEAN :
          cfg = [BASE_URL |-> Getenv(b, "https://api"),
                 API_KEY |-> Getenv(k, "key"),
                 TELEGRAM_TOKEN |-> Getenv(t, "token")]
    /\ proc = "init"
    /\ csv \in SourceFiles
    /\ bot_data = EmptyDict
    /\ load_calls = 0
    /\ handled = 0
    /\ pc = [h \in Handlers |-> EntryFrame.pc]
    /\ user_question = [h \in Handlers |-> EntryFrame.user_question]
    /\ request = [h \in Handlers |-> EntryFrame.request]
    /\ response = [h \in Handlers |-> EntryFrame.response]
    /\ typing_task = [h \in Handlers |-> EntryFrame.typing_task]
    /\ cancel_requested = [h \in Handlers |-> EntryFrame.cancel_requested]
    /\ signals = [h \in Handlers |-> EntryFrame.signals]
    /\ replies = [h \in Handlers |-> EntryFrame.replies]
    /\ api_calls = [h \in Handlers |-> EntryFrame.api_calls]
    /\ load_result = [h \in Handlers |-> EntryFrame.load_result]
    /\ call = NoCall

\* main(): Application.builder().token(...).build() raises for a token that is
\* None, which the except clause turns into sys.exit(1); otherwise the
\* handlers are registered and run_polling() serves updates.
Main ==
    /\ proc = "init"
    /\ proc' = IF cfg.TELEGRAM_TOKEN.tag = "None" THEN "exit_1" ELSE "polling"
    /\ UNCHANGED <<cfg, csv, bot_data, load_calls, handled, call>>
    /\ UNCHANGED frameVars

\* The finally clause left out: what a handler that forgets the task does.
CancelSkipped(f) == f

\* typing_task.cancel() in the finally clause.
Cancel(f) == [f EXCEPT !.cancel_requested = TRUE]

\* An except clause that logs and sends nothing.
ExceptClauseSilent(f) == [f EXCEPT !.pc = "done"]

\* The except clause up to its await: the apology's reply_text is under way.
ExceptClause(f) == [f EXCEPT !.pc = "apology_wait"]

\* The task cancelled as soon as the API call has settled, before the reply.
AwaitReplyCancelled(f, val) ==
    Cancel([f EXCEPT !.response = val, !.pc = "reply_wait"])

\* A handler that answers the API client's apology with its own.
AwaitReplyGeneric(f, val) ==
    [f EXCEPT !.response = IF val = PyStr(ApiApology) THEN PyStr(GenericApology)
                           ELSE val,
              !.pc = "reply_wait"]

\* A handler that posts the request once more when the API client returned
\* its apology.
AwaitReplyRetry(f, val) ==
    IF val = PyStr(ApiApology) /\ f.api_calls < 2
    THEN [f EXCEPT !.api_calls = @ + 1]
    ELSE [f EXCEPT !.response = val, !.pc = "reply_wait"]

\* response is assigned and reply_text(response) awaited, inside the try block.
AwaitReply(f, val) == [f EXCEPT !.response = val, !.pc = "reply_wait"]

\* handle_message from its entry to its first suspension: the cache test and
\* the load, then either the except clause (up to the await of the apology) or
\* create_task, create_api_request and send_api_request up to the POST.
\* The frame serves the next update once the call before it has returned or
\* raised and its task has ended (a CancelledError still to be delivered and
\* the first step of the next call touch different state).
Begin(h) ==
    /\ proc = "polling"
    /\ pc[h] \in {"idle", "done", "raised"}
    /\ typing_task[h] \in {"none", "cancelled", "failed"}
    /\ handled < MaxMsgs
    /\ handled' = handled + 1
    /\ \E q \in Questions :
          LET need == ~HasAttr(bot_data, "qa_context")
              loaded == read_csv_context(csv)
              data == IF need /\ ~loaded.raised
                      THEN [qa_context |-> loaded.val] ELSE bot_data
              started == [EntryFrame EXCEPT
                             !.load_result = IF need THEN "ok" ELSE "cached",
                             !.user_question = PyStr(q),
                             !.typing_task = "created"]
          IN /\ load_calls' = IF need THEN load_calls + 1 ELSE load_calls
             /\ bot_data' = data
             /\ IF need /\ loaded.raised
                THEN SetFrame(h, ExceptClause([EntryFrame EXCEPT !.load_result = "raised"]))
                ELSE IF HasKey(data, "qa_context")
                THEN SetFrame(h, [started EXCEPT
                         !.request = create_api_request(data["qa_context"].v, q),
                         !.api_calls = 1,
                         !.pc = "api_wait"])
                ELSE \* KeyError in the inner try: finally, then except
                     SetFrame(h, ExceptClause(Cancel(started)))
    /\ UNCHANGED <<cfg, proc, csv, call>>

\* The POST settles and send_api_request returns; handle_message goes on to
\* the await of reply_text(response).  With a base URL the call suspends the
\* handler on the network, and the event loop has by then run the first step
\* of the task created before it; the URL built from a missing base URL is
\* rejected before any suspension.
ApiStep(h, upstream) ==
    /\ pc[h] = "api_wait"
    /\ UpstreamPossible(cfg, upstream)
    /\ cfg.BASE_URL.tag # "None" => typing_task[h] # "created"
    /\ LET r == send_api_request(upstream)
       IN IF r.raised
          THEN SetFrame(h, ExceptClause(Cancel(Frame(h))))
          ELSE SetFrame(h, AwaitReply(Frame(h), r.val))
    /\ UNCHANGED procVars

\* The outcomes the API meets one POST with: a response with a status and a
\* body, a timeout, or an error of the client.
UpstreamIds ==
    ({"response"} \X Statuses \X (1..Len(Bodies)))
        \cup {<<"timeout", 0, 1>>, <<"client_error", 0, 1>>}

Upstream(id) ==
    IF id[1] = "response" THEN HttpResponse(id[2], Bodies[id[3]])
    ELSE IF id[1] = "timeout" THEN Timeout ELSE ClientError

ApiSettle(h) ==
    /\ \E id \in UpstreamIds : ApiStep(h, Upstream(id))
    /\ UNCHANGED call

\* A handler that goes on to the apology whatever the send of the reply did.
ReplySettleThenApology(h) ==
    /\ pc[h] = "reply_wait"
    /\ typing_task[h] # "created"
    /\ \E out \in ReplyOutcomes(response[h]) :
          SetFrame(h, ExceptClause(Cancel(
              [Frame(h) EXCEPT
                  !.replies = Append(@, [text |-> response[h],
                                         ok |-> (out = "ok")])])))
    /\ UNCHANGED procVars
    /\ UNCHANGED call

\* reply_text(response) settles, after the handler was suspended on the
\* request to the platform (so the task has run its first step): the finally
\* clause cancels the task, and handle_message returns or, when the send
\* raised, enters the except clause.
ReplySettle(h) ==
    /\ pc[h] = "reply_wait"
    /\ typing_task[h] # "created"
    /\ \E out \in ReplyOutcomes(response[h]) :
          LET sent == [Frame(h) EXCEPT
                          !.replies = Append(@, [text |-> response[h],
                                                 ok |-> (out = "ok")])]
          IN IF out = "ok"
             THEN SetFrame(h, [Cancel(sent) EXCEPT !.pc = "done"])
             ELSE SetFrame(h, ExceptClause(Cancel(sent)))
    /\ UNCHANGED procVars
    /\ UNCHANGED call

\* The apology's reply_text settles: handle_message returns, or the exception
\* of the send leaves it.
ApologySettle(h) ==
    /\ pc[h] = "apology_wait"
    /\ \E out \in {"ok", "raise"} :
          SetFrame(h, [Frame(h) EXCEPT
                          !.replies = Append(@, [text |-> PyStr(GenericApology),
                                                 ok |-> (out = "ok")]),
                          !.pc = IF out = "ok" THEN "done" ELSE "raised"])
    /\ UNCHANGED procVars
    /\ UNCHANGED call

\* keep_typing: the task runs for the first time and starts send_action.
TypingStart(h) ==
    /\ typing_task[h] = "created"
    /\ ~cancel_requested[h]
    /\ typing_task' = [typing_task EXCEPT ![h] = "sending"]
    /\ signals' = [signals EXCEPT ![h] = @ + 1]
    /\ UNCHANGED <<pc, user_question, request, response, cancel_requested,
                   replies, api_calls, load_result>>
    /\ UNCHANGED procVars
    /\ UNCHANGED call

\* send_action returns and the task sleeps.
TypingSignalDone(h) ==
    /\ typing_task[h] = "sending"
    /\ ~cancel_requested[h]
    /\ typing_task' = [typing_task EXCEPT ![h] = "sleeping"]
    /\ UNCHANGED <<pc, user_question, request, response, cancel_requested,
                   signals, replies, api_calls, load_result>>
    /\ UNCHANGED procVars
    /\ UNCHANGED call

\* A failure of send_action that reaches the handler: the handler leaves its
\* await through the except clause.
TypingSignalFailRaises(h) ==
    /\ typing_task[h] = "sending"
    /\ ~cancel_requested[h]
    /\ LET failed == [Frame(h) EXCEPT !.typing_task = "failed"]
       IN IF pc[h] \in {"api_wait", "reply_wait"}
          THEN SetFrame(h, ExceptClause(Cancel(failed)))
          ELSE SetFrame(h, failed)
    /\ UNCHANGED procVars
    /\ UNCHANGED call

\* send_action raises: the exception ends the task.
TypingSignalFail(h) ==
    /\ typing_task[h] = "sending"
    /\ ~cancel_requested[h]
    /\ typing_task' = [typing_task EXCEPT ![h] = "failed"]
    /\ UNCHANGED <<pc, user_question, request, response, cancel_requested,
                   signals, replies, api_calls, load_result>>
    /\ UNCHANGED procVars
    /\ UNCHANGED call

\* A loop that goes on after a cancellation was requested.
TypingWakeUncancelled(h) ==
    /\ typing_task[h] = "sleeping"
    /\ signals[h] < MaxSignals
    /\ typing_task' = [typing_task EXCEPT ![h] = "sending"]
    /\ signals' = [signals EXCEPT ![h] = @ + 1]
    /\ UNCHANGED <<pc, user_question, request, response, cancel_requested,
                   replies, api_calls, load_result>>
    /\ UNCHANGED procVars
    /\ UNCHANGED call

\* The sleep ends and the loop starts the next send_action.
TypingWake(h) ==
    /\ typing_task[h] = "sleeping"
    /\ ~cancel_requested[h]
    /\ signals[h] < MaxSignals
    /\ typing_task' = [typing_task EXCEPT ![h] = "sending"]
    /\ signals' = [signals EXCEPT ![h] = @ + 1]
    /\ UNCHANGED <<pc, user_question, request, response, cancel_requested,
                   replies, api_calls, load_result>>
    /\ UNCHANGED procVars
    /\ UNCHANGED call

\* The event loop delivers CancelledError to the task at its await (or before
\* its first step): the task ends cancelled.
TypingCancelled(h) ==
    /\ typing_task[h] \in {"created", "sending", "sleeping"}
    /\ cancel_requested[h]
    /\ typing_task' = [typing_task EXCEPT ![h] = "cancelled"]
    /\ UNCHANGED <<pc, user_question, request, response, cancel_requested,
                   signals, replies, api_calls, load_result>>
    /\ UNCHANGED procVars
    /\ UNCHANGED call

Next ==
    \/ Main
    \/ \E h \in Handlers : Begin(h)
    \/ \E h \in Handlers : ApiSettle(h)
    \/ \E h \in Handlers : ReplySettle(h)
    \/ \E h \in Handlers : ApologySettle(h)
    \/ \E h \in Handlers : TypingStart(h)
    \/ \E h \in Handlers : TypingSignalDone(h)
    \/ \E h \in Handlers : TypingSignalFail(h)
    \/ \E h \in Handlers : TypingWake(h)
    \/ \E h \in Handlers : TypingCancelled(h)

Spec == Init /\ [][Next]_vars

\* The scheduling of the event loop and of the network: a task that was
\* created gets its first step, a cancellation that was requested is delivered
\* at the task's await, and every outbound call (the POST, a reply_text)
\* settles; the clients bound their calls with timeouts.
Fairness ==
    \A h \in Handlers :
        /\ WF_vars(TypingStart(h))
        /\ WF_vars(TypingCancelled(h))
        /\ WF_vars(ApiSettle(h))
        /\ WF_vars(ReplySettle(h))
        /\ WF_vars(ApologySettle(h))

SpecFair == Spec /\ Fairness

\* The process with the outcome of the last POST kept in call, for the
\* properties that relate a reply to what the API answered.
ApiSettleRecorded(h) ==
    \E id \in UpstreamIds :
       /\ ApiStep(h, Upstream(id))
       /\ call' = [fn |-> "send_api_request", arg |-> Upstream(id),
                   done |-> TRUE, ret |-> send_api_request(Upstream(id))]

NextRecorded ==
    \/ Main
    \/ \E h \in Handlers : Begin(h)
    \/ \E h \in Handlers : ApiSettleRecorded(h)
    \/ \E h \in Handlers : ReplySettle(h)
    \/ \E h \in Handlers : ApologySettle(h)
    \/ \E h \in Handlers : TypingStart(h)
    \/ \E h \in Handlers : TypingSignalDone(h)
    \/ \E h \in Handlers : TypingSignalFail(h)
    \/ \E h \in Handlers : TypingWake(h)
    \/ \E h \in Handlers : TypingCancelled(h)

SpecRecorded == Init /\ [][NextRecorded]_vars

-----------------------------------------------------------------------------
(* The function specifications: one call of a pure function on an input    *)
(* drawn from a bounded family.                                            *)

\* The state of the process around a single function call.
Standalone ==
    /\ cfg = [BASE_URL |-> Getenv(TRUE, "https://api"),
              API_KEY |-> Getenv(TRUE, "key"),
              TELEGRAM_TOKEN |-> Getenv(TRUE, "token")]
    /\ proc = "init"
    /\ csv = GoodFile
    /\ bot_data = EmptyDict
    /\ load_calls = 0
    /\ handled = 0
    /\ pc = [h \in Handlers |-> EntryFrame.pc]
    /\ user_question = [h \in Handlers |-> EntryFrame.user_question]
    /\ request = [h \in Handlers |-> EntryFrame.request]
    /\ response = [h \in Handlers |-> EntryFrame.response]
    /\ typing_task = [h \in Handlers |-> EntryFrame.typing_task]
    /\ cancel_requested = [h \in Handlers |-> EntryFrame.cancel_requested]
    /\ signals = [h \in Handlers |-> EntryFrame.signals]
    /\ replies = [h \in Handlers |-> EntryFrame.replies]
    /\ api_calls = [h \in Handlers |-> EntryFrame.api_calls]
    /\ load_result = [h \in Handlers |-> EntryFrame.load_result]

\* Header rows of the CSV files given to read_csv_context.
Headers ==
    << <<"Vopros", "Otvet">>,
       <<"Otvet", "Vopros">>,
       <<"ID", "VOPROS", "OTVET">>,
       <<"Vopros", "Otvet", "Vopros 2">>,
       <<"Otvet", "Vopros", "Otvet 2">>,
       <<"Vopros-otvet", "Otvet">>,
       <<"Vopros-otvet">>,
       <<"Vopros">>,
       <<"Otvet", "Kommentariy">>,
       <<"ID", "Tekst">> >>

\* Records of those files: full, with an empty field, short, and empty.
RowPool ==
    { <<"q1", "a1", "x">>, <<"", "a1", "x">>, <<"q1", "", "x">>, <<"a2", "q2">>,
      <<"q1">>, <<>> }

RowSeqs == UNION { [1..n -> RowPool] : n \in 0..MaxRows }

InitLoad ==
    /\ Standalone
    /\ \/ call = [fn |-> "read_csv_context", arg |-> Unreadable,
                  done |-> FALSE, ret |-> Returns(PyNone)]
       \/ \E i \in 1..Len(Headers), rows \in RowSeqs :
             call = [fn |-> "read_csv_context",
                     arg |-> [readable |-> TRUE, fieldnames |-> Headers[i],
                              rows |-> rows],
                     done |-> FALSE, ret |-> Returns(PyNone)]

\* The call of read_csv_context returns or raises.
ReadCsvCall ==
    /\ call.fn = "read_csv_context"
    /\ ~call.done
    /\ call' = [call EXCEPT !.done = TRUE, !.ret = read_csv_context(call.arg)]
    /\ UNCHANGED procVars
    /\ UNCHANGED frameVars

NextLoad == ReadCsvCall

SpecLoad == InitLoad /\ [][NextLoad]_vars

InitSend ==
    /\ Standalone
    /\ \E i \in 1..Len(Bodies), status \in Statuses,
          kind \in {"client_error", "timeout", "response"} :
          call = [fn |-> "send_api_request",
                  arg |-> IF kind = "response" THEN HttpResponse(status, Bodies[i])
                          ELSE IF kind = "timeout" THEN Timeout ELSE ClientError,
                  done |-> FALSE, ret |-> Returns(PyNone)]

\* The call of send_api_request returns.
SendCall ==
    /\ call.fn = "send_api_request"
    /\ ~call.done
    /\ call' = [call EXCEPT !.done = TRUE, !.ret = send_api_request(call.arg)]
    /\ UNCHANGED procVars
    /\ UNCHANGED frameVars

NextSend == SendCall

SpecSend == InitSend /\ [][NextSend]_vars

\* Column names of the headers given to the loop over reader.fieldnames, and
\* the headers of up to MaxCols columns made of them.
ColumnNames == {"Vopros", "OTVET", "Vopros-otvet", "Otvet 2", "vopros 2", "ID"}

HeaderSeqs == UNION { [1..n -> ColumnNames] : n \in 1..MaxCols }

InitSelect ==
    /\ Standalone
    /\ \E hdr \in HeaderSeqs :
          call = [fn |-> "select_fields", arg |-> hdr,
                  done |-> FALSE, ret |-> Returns(PyNone)]

\* The loop over reader.fieldnames runs to its end.
SelectCall ==
    /\ call.fn = "select_fields"
    /\ ~call.done
    /\ call' = [call EXCEPT !.done = TRUE, !.ret = Returns(SelectFields(call.arg))]
    /\ UNCHANGED procVars
    /\ UNCHANGED frameVars

NextSelect == SelectCall

SpecSelect == InitSelect /\ [][NextSelect]_vars

\* Context and question strings given to create_api_request: concatenations
\* of two pieces, among them the empty string and strings with newlines.
TextPieces == {"", "Gde ofis?", "\n", " ", "Vopros: q\nOtvet: a"}

Texts == { a \o b : a \in TextPieces, b \in TextPieces }

InitBuild ==
    /\ Standalone
    /\ \E c \in Texts, q \in Texts :
          call = [fn |-> "create_api_request",
                  arg |-> [context |-> c, question |-> q],
                  done |-> FALSE, ret |-> Returns(PyNone)]

\* The call of create_api_request returns.
BuildCall ==
    /\ call.fn = "create_api_request"
    /\ ~call.done
    /\ call' = [call EXCEPT !.done = TRUE,
                            !.ret = Returns(create_api_request(call.arg.context,
                                                               call.arg.question))]
    /\ UNCHANGED procVars
    /\ UNCHANGED frameVars

NextBuild == BuildCall

SpecBuild == InitBuild /\ [][NextBuild]_vars

-----------------------------------------------------------------------------
(* The claims.                                                             *)

Returned(h) == pc[h] \in {"done", "raised"}
TaskStarted(h) == typing_task[h] # "none"
ConfigMissing ==
    \E name \in {"BASE_URL", "API_KEY", "TELEGRAM_TOKEN"} : cfg[name].tag = "None"

\* C1 (as stated): once a load has succeeded and its result is in the cache,
\* no later message calls read_csv_context again.  Stated for a process with
\* its three configuration values and a cached context that is not empty.
C1_NoReloadOnceCached ==
    [][(/\ ~ConfigMissing
        /\ HasKey(bot_data, "qa_context")
        /\ Truthy(bot_data["qa_context"]))
          => load_calls' = load_calls]_vars

\* C2: whenever handle_message has returned or raised for a message whose
\* typing task was created, cancel() has been called on that task.
C2_TaskCancelledOnExit ==
    \A h \in Handlers :
        Returned(h) /\ TaskStarted(h) => cancel_requested[h]

C2_Witness ==
    \E h \in Handlers :
        /\ Returned(h) /\ TaskStarted(h)
        /\ Len(replies[h]) = 2 /\ ~replies[h][1].ok
        /\ cancel_requested[h]

C4_NeverRaises ==
    ~ConfigMissing => \A h \in Handlers : pc[h] # "raised"

\* C5: send_api_request returns (never raises), and for a client error, a
\* timeout, a non-success status, a malformed body and a dict body without
\* 'choices' what it returns is one of the two fallback strings.
UpstreamFailure(u) ==
    \/ u.kind \in {"client_error", "timeout"}
    \/ u.status >= 400
    \/ u.body.tag = "malformed"
    \/ u.body.tag = "dict" /\ ~("choices" \in DOMAIN u.body.v)

C5_SendNeverRaises ==
    call.fn = "send_api_request" /\ call.done =>
        /\ ~call.ret.raised
        /\ UpstreamFailure(call.arg) =>
              \/ call.ret.val = PyStr(FallbackNoAnswer)
              \/ call.ret.val = PyStr(ApiApology)

C5_Witness ==
    /\ call.fn = "send_api_request" /\ call.done
    /\ call.arg.kind = "response" /\ call.arg.status = 200
    /\ call.arg.body.tag = "malformed"
    /\ call.ret = Returns(PyStr(ApiApology))

\* C6 (as stated): on a success status the result is the string at
\* choices[0].message.content, it is the 'could not obtain a response' string
\* when there is no 'choices' key, an empty 'choices' list, a first choice
\* without 'message', a message without 'content' or a null content, and it
\* is always a string.
IsDictWith(x, key) == x.tag = "dict" /\ key \in DOMAIN x.v
IsDictWithout(x, key) == x.tag = "dict" /\ ~(key \in DOMAIN x.v)
FirstChoice(body) == body.v["choices"].v[1]
HasChoice(body) ==
    /\ IsDictWith(body, "choices")
    /\ body.v["choices"].tag = "list"
    /\ Len(body.v["choices"].v) > 0

ContentPresent(body) ==
    /\ HasChoice(body)
    /\ IsDictWith(FirstChoice(body), "message")
    /\ IsDictWith(FirstChoice(body).v["message"], "content")
    /\ FirstChoice(body).v["message"].v["content"].tag = "str"

ContentAbsent(body) ==
    \/ IsDictWithout(body, "choices")
    \/ IsDictWith(body, "choices") /\ body.v["choices"].tag = "list"
          /\ Len(body.v["choices"].v) = 0
    \/ HasChoice(body) /\ IsDictWithout(FirstChoice(body), "message")
    \/ HasChoice(body) /\ IsDictWith(FirstChoice(body), "message")
          /\ IsDictWithout(FirstChoice(body).v["message"], "content")
    \/ HasChoice(body) /\ IsDictWith(FirstChoice(body), "message")
          /\ IsDictWith(FirstChoice(body).v["message"], "content")
          /\ FirstChoice(body).v["message"].v["content"].tag = "None"

C6_ContentOrFallback ==
    call.fn = "send_api_request" /\ call.done =>
        /\ call.ret.raised \/ call.ret.val.tag = "str"
        /\ call.arg.kind = "response" /\ call.arg.status < 400 =>
              /\ ContentPresent(call.arg.body) =>
                    call.ret = Returns(FirstChoice(call.arg.body).v["message"].v["content"])
              /\ ContentAbsent(call.arg.body) =>
                    call.ret = Returns(PyStr(FallbackNoAnswer))

\* C7: when the load fails, the handler sends exactly one reply, the generic
\* apology, starts no typing task and makes no API call; the process keeps
\* polling, the cache stays unset, and the next message calls
\* read_csv_context again.
LoadFailed(h) == load_result[h] = "raised"

C7_LoadFailureApology ==
    /\ [](\A h \in Handlers : LoadFailed(h) =>
             /\ proc = "polling"
             /\ ~HasKey(bot_data, "qa_context")
             /\ ~TaskStarted(h) /\ api_calls[h] = 0
             /\ Len(replies[h]) <= 1
             /\ \A i \in 1..Len(replies[h]) : replies[h][i].text = PyStr(GenericApology)
             /\ Returned(h) => Len(replies[h]) = 1
             /\ pc[h] = "done" => replies[h][1].ok)
    /\ [][\A h \in Handlers :
             LoadFailed(h) /\ Returned(h) /\ handled' = handled + 1
                 => load_calls' = load_calls + 1]_vars

C7_Witness ==
    \E h \in Handlers :
        /\ LoadFailed(h) /\ pc[h] = "done"
        /\ handled = 2 /\ load_calls = 2
        /\ replies[h] = << [text |-> PyStr(GenericApology), ok |-> TRUE] >>

\* C8 (as stated): with any of the three configuration values missing, the
\* process exits with status 1 at startup and handles no message.
C8_MissingConfigIsFatal ==
    ConfigMissing /\ proc # "init" => proc = "exit_1" /\ handled = 0

\* C9 (as stated): whenever a prompt has been built, the context in it is a
\* non-empty string.  Stated for a process with its three configuration
\* values.
C9_ContextNonEmpty ==
    ~ConfigMissing =>
        \A h \in Handlers :
            pc[h] = "api_wait" =>
                request[h].messages[1].content # SystemPreamble

\* C10: when read_csv_context returns, its result is one block per record
\* whose question and answer fields are both non-empty, in the order of the
\* records, joined by a blank line; the other records contribute nothing.
FieldOf(fieldnames, row, name) ==
    LET i == CHOOSE k \in 1..Len(fieldnames) : fieldnames[k] = name
    IN IF i <= Len(row) THEN row[i] ELSE ""

RECURSIVE ExpectedContext(_, _, _, _)
ExpectedContext(fieldnames, rows, qf, af) ==
    IF rows = <<>> THEN ""
    ELSE LET n == Len(rows)
             before == ExpectedContext(fieldnames, SubSeq(rows, 1, n - 1), qf, af)
             q == FieldOf(fieldnames, rows[n], qf)
             a == FieldOf(fieldnames, rows[n], af)
             block == "Vopros: " \o q \o "\nOtvet: " \o a
         IN IF q = "" \/ a = "" THEN before
            ELSE IF before = "" THEN block
            ELSE before \o "\n\n" \o block

C10_OneBlockPerQualifyingRow ==
    call.fn = "read_csv_context" /\ call.done /\ ~call.ret.raised =>
        LET sel == SelectFields(call.arg.fieldnames)
        IN call.ret.val = PyStr(ExpectedContext(call.arg.fieldnames, call.arg.rows,
                                                sel.question_field.v,
                                                sel.answer_field.v))

C10_Witness ==
    /\ call.fn = "read_csv_context" /\ call.done /\ ~call.ret.raised
    /\ call.arg.fieldnames = <<"Vopros", "Otvet">>
    /\ call.arg.rows = << <<"q1", "a1", "x">>, <<"q1", "", "x">>, <<"a2", "q2">> >>
    /\ call.ret.val = PyStr("Vopros: q1\nOtvet: a1\n\nVopros: a2\nOtvet: q2")

\* C11: read_csv_context raises when no column name contains the question
\* token, and when no column name contains the answer token (compared in
\* lower case, as a substring), whatever other columns the header has.
NamesToken(fieldnames, tok) ==
    \E i \in 1..Len(fieldnames) : Contains(tok, Lower(fieldnames[i]))

C11_RaisesWithoutColumns ==
    /\ call.fn = "read_csv_context" /\ call.done /\ call.arg.readable
    /\ \/ ~NamesToken(call.arg.fieldnames, QuestionToken)
       \/ ~NamesToken(call.arg.fieldnames, AnswerToken)
    => call.ret = Raises("ValueError")

C11_Witness ==
    /\ call.fn = "read_csv_context" /\ call.done
    /\ call.arg.fieldnames = <<"Otvet", "Kommentariy">>
    /\ Len(call.arg.rows) = 2
    /\ call.ret = Raises("ValueError")

\* C12 (as stated): for every header, the question column is the first name
\* (in header order) that contains the question token and the answer column
\* is the first name that contains the answer token, each chosen without
\* regard to the other, also when several names match a role or one name
\* contains both tokens.
Naming(fieldnames, tok) ==
    { i \in 1..Len(fieldnames) : Contains(tok, Lower(fieldnames[i])) }

FirstOf(positions) == CHOOSE i \in positions : \A j \in positions : i <= j
LastOf(positions) == CHOOSE i \in positions : \A j \in positions : j <= i

C12_FirstMatchPerRole ==
    call.fn = "select_fields" /\ call.done =>
        LET qs == Naming(call.arg, QuestionToken)
            as == Naming(call.arg, AnswerToken)
        IN /\ qs # {} => call.ret.val.question_field = PyStr(call.arg[FirstOf(qs)])
           /\ as # {} => call.ret.val.answer_field = PyStr(call.arg[FirstOf(as)])

\* C12 (amended): the question column is the last name that contains the
\* question token; the answer column is the last name that contains the
\* answer token and not the question token; a role without such a name is
\* left unselected.
C12_LastMatchQuestionFirst ==
    call.fn = "select_fields" /\ call.done =>
        LET qs == Naming(call.arg, QuestionToken)
            as == Naming(call.arg, AnswerToken) \ qs
        IN /\ call.ret.val.question_field =
                 IF qs = {} THEN PyNone ELSE PyStr(call.arg[LastOf(qs)])
           /\ call.ret.val.answer_field =
                 IF as = {} THEN PyNone ELSE PyStr(call.arg[LastOf(as)])

C12_Witness ==
    /\ call.fn = "select_fields" /\ call.done
    /\ call.arg = <<"Vopros", "Vopros-otvet", "OTVET">>
    /\ call.ret.val = [question_field |-> PyStr("Vopros-otvet"),
                       answer_field |-> PyStr("OTVET")]

\* C13: for every context and every question (the empty string and strings
\* with newlines among them) create_api_request returns the fixed model
\* identifier and exactly two messages, system then user; the user content is
\* the question verbatim and the system content is the fixed instruction text
\* followed by the whole context verbatim.
C13_TwoMessagesVerbatim ==
    call.fn = "create_api_request" /\ call.done =>
        LET req == call.ret.val
            sys == req.messages[1].content
            n == Len(SystemPreamble)
        IN /\ ~call.ret.raised
           /\ DOMAIN req = {"model", "messages"}
           /\ req.model = "cotype_pro_16k_1.1"
           /\ Len(req.messages) = 2
           /\ req.messages[1].role = "system"
           /\ req.messages[2].role = "user"
           /\ req.messages[2].content = call.arg.question
           /\ Len(sys) = n + Len(call.arg.context)
           /\ SubSeq(sys, 1, n) = SystemPreamble
           /\ SubSeq(sys, n + 1, Len(sys)) = call.arg.context

C13_Witness ==
    /\ call.fn = "create_api_request" /\ call.done
    /\ call.arg = [context |-> "Vopros: q\nOtvet: a\n", question |-> ""]
    /\ call.ret.val.messages[2] = [role |-> "user", content |-> ""]

\* C14: when the load has succeeded and the send of the reply has succeeded,
\* the text sent to the chat is the value send_api_request returned for the
\* message and it is the only reply: the content of the first choice when the
\* API answered with a success status and such a content, the API client's
\* apology when the API answered with an error status.
AnswerDelivered(h) ==
    load_result[h] # "raised" /\ Len(replies[h]) >= 1 /\ replies[h][1].ok

C14_ReplyIsApiResult ==
    \A h \in Handlers :
        AnswerDelivered(h) =>
            /\ call.fn = "send_api_request" /\ call.done
            /\ replies[h] = << [text |-> call.ret.val, ok |-> TRUE] >>
            /\ LET u == call.arg
               IN /\ (u.kind = "response" /\ u.status < 400 /\ ContentPresent(u.body))
                        => replies[h][1].text = FirstChoice(u.body).v["message"].v["content"]
                  /\ (u.kind = "response" /\ u.status >= 400)
                        => replies[h][1].text = PyStr(ApiApology)

C14_Witness ==
    \E h \in Handlers :
        /\ AnswerDelivered(h)
        /\ call.arg.kind = "response" /\ call.arg.status = 500
        /\ replies[h][1].text = PyStr(ApiApology)
        /\ pc[h] = "done"

\* C15: once the cancellation of a message's keep_typing task has been
\* requested, the task starts no further send_action (the count of signals of
\* the message stays as it is while the message's frame lasts), and the task
\* ends.
TaskAlive(h) == typing_task[h] \in {"created", "sending", "sleeping"}

C15_NoSignalAfterCancel ==
    /\ [][\A h \in Handlers :
             cancel_requested[h] /\ handled' = handled
                 => signals'[h] = signals[h]]_vars
    /\ \A h \in Handlers :
          (cancel_requested[h] /\ TaskAlive(h)) ~> ~TaskAlive(h)

C15_Witness ==
    \E h \in Handlers :
        /\ cancel_requested[h]
        /\ typing_task[h] = "cancelled"
        /\ signals[h] >= 1
        /\ signals[h] < MaxSignals

\* C16: a message whose load succeeded has exactly one call of the completion
\* API, from the moment the handler first suspends to its end, whatever the
\* outcome of the call (a failed call is not repeated); a message whose load
\* failed has none.
C16_OneApiCallPerMessage ==
    \A h \in Handlers :
        /\ load_result[h] = "raised" => api_calls[h] = 0
        /\ load_result[h] \in {"ok", "cached"} => api_calls[h] = 1
        /\ pc[h] \in {"reply_wait", "done", "apology_wait", "raised"}
               => load_result[h] # "none"

C16_Witness ==
    \E h \in Handlers :
        /\ ~ConfigMissing
        /\ load_result[h] = "ok"
        /\ response[h] = PyStr(ApiApology)
        /\ Returned(h)
        /\ api_calls[h] = 1

\* C17: several calls of handle_message in flight at once do not occur under
\* the dispatch of main() (Handlers), so no formula about them is stated.

Suspended(h) == pc[h] \in {"api_wait", "reply_wait", "apology_wait"}

Delivered(h) == { i \in 1..Len(replies[h]) : replies[h][i].ok }

C19_TerminatesWithOneReply ==
    /\ \A h \in Handlers : Suspended(h) ~> Returned(h)
    /\ [](\A h \in Handlers :
             /\ Returned(h) => Len(replies[h]) >= 1
             /\ Cardinality(Delivered(h)) <= 1
             /\ pc[h] = "apology_wait" =>
                    \/ load_result[h] = "raised" /\ replies[h] = <<>>
                    \/ Len(replies[h]) = 1 /\ ~replies[h][1].ok
             /\ Len(replies[h]) = 2 =>
                    /\ ~replies[h][1].ok
                    /\ replies[h][2].text = PyStr(GenericApology)
             /\ Len(replies[h]) <= 2)

C19_Witness ==
    \E h \in Handlers :
        /\ pc[h] = "done"
        /\ load_result[h] = "ok"
        /\ Len(replies[h]) = 2
        /\ ~replies[h][1].ok
        /\ replies[h][1].text = PyStr("V Moskve")
        /\ replies[h][2] = [text |-> PyStr(GenericApology), ok |-> TRUE]

\* C20: send_action raising inside keep_typing ends that task and nothing
\* else: the step leaves the handler where it is, with its response and its
\* replies; the handler goes on as it would have (a reply that is sent
\* successfully is the response, the only reply, and ends the call), and the
\* cancel() of the finally clause leaves the failed task as it is.
C20_SignalFailureContained ==
    /\ [][\A h \in Handlers :
             typing_task[h] = "sending" /\ typing_task'[h] = "failed" =>
                 /\ pc'[h] = pc[h]
                 /\ response'[h] = response[h]
                 /\ replies'[h] = replies[h]
                 /\ cancel_requested'[h] = cancel_requested[h]]_vars
    /\ [][\A h \in Handlers :
             typing_task[h] = "failed" /\ handled' = handled =>
                 /\ typing_task'[h] = "failed"
                 /\ (pc[h] = "reply_wait" /\ pc'[h] = "done") =>
                        replies'[h] = << [text |-> response[h], ok |-> TRUE] >>
                 /\ pc'[h] = "apology_wait" =>
                        Len(replies'[h]) = 1 /\ ~replies'[h][1].ok]_vars

C20_Witness ==
    \E h \in Handlers :
        /\ typing_task[h] = "failed"
        /\ cancel_requested[h]
        /\ pc[h] = "done"
        /\ replies[h] = << [text |-> PyStr("V Moskve"), ok |-> TRUE] >>

====
